---- MODULE Spec2Model ----
(***************************************************************************)
(* Course management system: the REST backend (Express handlers over the   *)
(* Course and Student collections) and the dashboard aggregates computed   *)
(* by the CourseManagement component.                                      *)
(*                                                                         *)
(* Every await on a database call is one atomic step of the model, so the  *)
(* handlers of concurrently served requests interleave between awaits.     *)
(* A database call either succeeds or throws without having changed the    *)
(* collection (the driver rejects the call).  The two handlers that await  *)
(* more than once (GET /api/courses, DELETE /api/courses/:id) are recorded *)
(* in req while suspended, one of each at a time; the other handlers await *)
(* once and answer in the step that serves them.                           *)
(***************************************************************************)
EXTENDS Integers, Sequences, FiniteSets, TLC

\* ------------------------------------------------------------------ bounds
\* Number of Course ids / Student ids the id generator hands out, and the
\* largest fee amount a request carries.
MaxCourses == 2
MaxStudents == 2
MaxFee == 1
\* Number of write requests the user of the component starts.
MaxWrites == 2
\* Length of the longest phone typed into the student form.
MaxPhoneLen == 4

\* A well-formed ObjectId that the generator never hands out.
GhostId == 0

Fees == 0..MaxFee
Titles == {"", "Math 101"}
Names == {"", "Alice"}

VARIABLES
  courses,        \* Course collection: _id -> document
  students,       \* Student collection: _id -> document
  nextCourseId,   \* next ObjectId of a Course
  nextStudentId,  \* next ObjectId of a Student
  req,            \* the handlers suspended at an await, per route
  res,            \* the response sent by the last step, if it sent one
  deleted,        \* history: the Courses a DELETE /api/courses/:id has removed
  ui,             \* the state of the CourseManagement component
  net             \* the requests and responses of the component in flight

vars ==
  <<courses, students, nextCourseId, nextStudentId, req, res, deleted, ui, net>>

\* ----------------------------------------------------------------- helpers
Min(S) == CHOOSE x \in S : \A y \in S : x <= y

RECURSIVE SetToSeq(_)
\* The ids of S in retrieval order (ObjectIds grow with insertion).
SetToSeq(S) == IF S = {} THEN <<>>
               ELSE LET m == Min(S) IN <<m>> \o SetToSeq(S \ {m})

Range(s) == {s[i] : i \in DOMAIN s}

\* {...doc, ...patch}: the fields of patch laid over those of doc.
Merge(doc, patch) ==
  [f \in DOMAIN doc \cup DOMAIN patch |->
     IF f \in DOMAIN patch THEN patch[f] ELSE doc[f]]

Has(body, f) == f \in DOMAIN body

\* ------------------------------------------------------------------ schemas
\* courseSchema: title required, language defaults to "English".
CourseValid(body) == Has(body, "title") /\ body.title # ""

\* Faulty variant: the schema default of language is missing.
CourseDoc_NoDefault(id, body) ==
  [_id |-> id,
   title |-> body.title,
   language |-> IF Has(body, "language") THEN body.language ELSE ""]

CourseDoc(id, body) ==
  [_id |-> id,
   title |-> body.title,
   language |-> IF Has(body, "language") THEN body.language ELSE "English"]

\* studentSchema: name, email and courseId required; courseId is an ObjectId
\* and is not looked up in the Course collection.
StudentValid(body) ==
  /\ Has(body, "name") /\ body.name # ""
  /\ Has(body, "email") /\ body.email # ""
  /\ Has(body, "courseId")

\* The paths of studentSchema the model carries (joinDate is left out: no
\* handler reads it).
StudentPaths ==
  {"name", "email", "phone", "totalFee", "paidAmount", "reminderMessage",
   "courseId"}

\* new Student(body): the paths the body sets, and the generated _id.
StudentDoc(id, body) ==
  [f \in {"_id"} \cup (DOMAIN body \cap StudentPaths) |->
     IF f = "_id" THEN id ELSE body[f]]

\* ------------------------------------------------------ collection operations
\* Model.find(): all documents, in retrieval order.
CourseFind(cs) == [i \in 1..Cardinality(DOMAIN cs) |-> cs[SetToSeq(DOMAIN cs)[i]]]

\* Faulty variant: the filter is dropped, every Student is found.
StudentFind_All(st, courseId) ==
  LET ids == SetToSeq(DOMAIN st) IN [i \in 1..Len(ids) |-> st[ids[i]]]

\* Student.find({ courseId }): the documents whose courseId matches.
StudentFind(st, courseId) ==
  LET ids == SetToSeq({s \in DOMAIN st : st[s].courseId = courseId})
  IN  [i \in 1..Len(ids) |-> st[ids[i]]]

\* newDoc.save(): the collection with the document inserted.
Save(coll, doc) == [i \in DOMAIN coll \cup {doc._id} |->
                      IF i = doc._id THEN doc ELSE coll[i]]

\* Model.findByIdAndUpdate(id, body, { new: true }): the collection after it.
FindByIdAndUpdate(coll, id, body) ==
  IF id \in DOMAIN coll
  THEN [coll EXCEPT ![id] = Merge(coll[id], body)]
  ELSE coll

\* The value findByIdAndUpdate / findByIdAndDelete resolves to: the document,
\* or null (the empty set) when no document has the id.
FoundDoc(coll, id) == IF id \in DOMAIN coll THEN {coll[id]} ELSE {}

\* Faulty variant: an id that matches nothing deletes the first document instead.
FindByIdAndDelete_First(coll, id) ==
  IF id \in DOMAIN coll \/ DOMAIN coll = {}
  THEN [i \in DOMAIN coll \ {id} |-> coll[i]]
  ELSE [i \in DOMAIN coll \ {Min(DOMAIN coll)} |-> coll[i]]

\* Model.findByIdAndDelete(id): the collection after it.
FindByIdAndDelete(coll, id) == [i \in DOMAIN coll \ {id} |-> coll[i]]

\* Faulty variant: the cascade is skipped, no Student is deleted.
StudentDeleteMany_None(st, courseId) == st

\* Faulty variant: the filter is dropped, every Student is deleted.
StudentDeleteMany_All(st, courseId) == << >>

\* Student.deleteMany({ courseId }): the collection after it.
StudentDeleteMany(st, courseId) ==
  [s \in {x \in DOMAIN st : st[x].courseId # courseId} |-> st[s]]


\* ----------------------------------------------------------- request inputs
\* Ids a client can name: every id handed out so far, and GhostId.
KnownCourseIds == (1..(nextCourseId - 1)) \cup {GhostId}
KnownStudentIds == (1..(nextStudentId - 1)) \cup {GhostId}

\* Bodies of POST /api/courses: the form's body (language "English", the
\* title possibly empty) and a body without language.
CourseBodies ==
  {[title |-> t, language |-> "English"] : t \in Titles}
    \cup {[title |-> "Math 101"]}

\* Bodies of PUT /api/courses/:id with titles from T: partial field sets.
CourseUpdates(T) == {[title |-> t] : t \in T}

\* Bodies of POST /api/students with amounts from F: the form's body, and
\* the same body with the email or the courseId left out.
StudentBodies(F) ==
  LET full == {[name |-> n, email |-> "alice@example.org", totalFee |-> t,
                paidAmount |-> p, reminderMessage |-> "", courseId |-> k] :
               n \in Names, t \in F, p \in F, k \in KnownCourseIds}
      noCourse == {[name |-> "Alice", email |-> "alice@example.org",
                    totalFee |-> MaxFee, paidAmount |-> MaxFee,
                    reminderMessage |-> ""]}
      noEmail == {[name |-> "Alice", email |-> "", totalFee |-> MaxFee,
                   paidAmount |-> MaxFee, reminderMessage |-> "",
                   courseId |-> k] : k \in KnownCourseIds}
  IN  full \cup noCourse \cup noEmail

\* Bodies of PUT /api/students/:id with amounts from F: partial field sets.
StudentUpdates(F) ==
  {[paidAmount |-> p] : p \in F}
    \cup {[totalFee |-> t] : t \in F}
    \cup {[courseId |-> k] : k \in KnownCourseIds}

\* ------------------------------------------------------ requests, responses
Routes == {"GetCourses", "DeleteCourse"}

Idle ==
  [pc |-> "idle", id |-> GhostId, data |-> <<>>, todo |-> {}, after |-> {},
   threw |-> FALSE]

\* The handler is suspended at an await: pc is where it continues, id its
\* :id parameter, data and todo the course views and the lookups still
\* pending; after and threw are history (the Courses removed before the
\* request was received, whether an awaited call of the handler threw).
Await(pc, id, data, todo, after) ==
  [pc |-> pc, id |-> id, data |-> data, todo |-> todo, after |-> after,
   threw |-> FALSE]

NoResponse ==
  [kind |-> "none", id |-> GhostId, status |-> 0, message |-> "",
   doc |-> {}, data |-> <<>>, after |-> {}]

\* res.status(status).json(...) answering the request kind with parameter
\* :id; doc is the document of the body (null: {}), data the list of the
\* body, message its message.
Respond(kind, id, status, message, doc, data) ==
  [kind |-> kind, id |-> id, status |-> status, message |-> message,
   doc |-> doc, data |-> data, after |-> {}]

\* catch (error): res.status(status).json({ message: error.message })
Catch(kind, id, status, error) == Respond(kind, id, status, error, {}, <<>>)

\* { ...course.toObject(), students }
View(course, studs) == Merge(course, [students |-> studs])

\* useState(...) initial values; selectedCourseRef is useRef(null).current,
\* null is the empty set.  alert is the window.alert or console.error of the
\* last step ("" when it raised none).
Unmounted ==
  [courses |-> <<>>, selectedCourse |-> {}, selectedCourseRef |-> {},
   showCourseModal |-> FALSE, showStudentModal |-> FALSE,
   showStudentDetailModal |-> FALSE, selectedStudent |-> {},
   editingCourse |-> {}, editingStudent |-> {}, loading |-> TRUE,
   alert |-> ""]

\* No request of the component is in flight and none was issued.
NoTraffic ==
  [requests |-> {}, serving |-> {}, responses |-> {}, issued |-> 0,
   writes |-> 0, rejected |-> FALSE, row |-> << >>]

\* The backend alone: the component is not mounted.
Init ==
  /\ courses = << >>
  /\ students = << >>
  /\ nextCourseId = 1
  /\ nextStudentId = 1
  /\ req = [r \in Routes |-> Idle]
  /\ res = NoResponse
  /\ deleted = {}
  /\ ui = Unmounted
  /\ net = NoTraffic

\* ------------------------------------------------------- GET /api/courses
\* await Course.find(); then one Student.find per course is issued.
GetCourses_CourseFind(ok) ==
  /\ req["GetCourses"].pc = "idle"
  /\ LET found == CourseFind(courses)
         views == [i \in DOMAIN found |-> View(found[i], <<>>)]
     IN  IF ok /\ Len(found) > 0
         THEN /\ req' = [req EXCEPT !["GetCourses"] =
                   Await("students", GhostId, views, DOMAIN found, deleted)]
              /\ res' = NoResponse
         ELSE /\ res' = IF ok
                        THEN [Respond("GetCourses", GhostId, 200, "", {}, <<>>)
                                EXCEPT !.after = deleted]
                        ELSE Catch("GetCourses", GhostId, 500, "StorageError")
              /\ UNCHANGED req
  /\ UNCHANGED <<courses, students, nextCourseId, nextStudentId, deleted>>

\* One of the Student.find({ courseId: course._id }) calls of Promise.all
\* resolves (or rejects); the response is sent when the last one has resolved.
GetCourses_StudentFind(i, ok) ==
  /\ req["GetCourses"].pc = "students"
  /\ i \in req["GetCourses"].todo
  /\ LET r == req["GetCourses"]
         course == r.data[i]
         data == [r.data EXCEPT ![i] =
                    View(course, StudentFind(students, course._id))]
         todo == r.todo \ {i}
     IN  IF ok /\ todo # {}
         THEN /\ req' = [req EXCEPT !["GetCourses"] =
                   Await("students", GhostId, data, todo, r.after)]
              /\ res' = NoResponse
         ELSE /\ res' = IF ok
                        THEN [Respond("GetCourses", GhostId, 200, "", {}, data)
                                EXCEPT !.after = r.after]
                        ELSE Catch("GetCourses", GhostId, 500, "StorageError")
              /\ req' = [req EXCEPT !["GetCourses"] = Idle]
  /\ UNCHANGED <<courses, students, nextCourseId, nextStudentId, deleted>>

\* ------------------------------------------------------ POST /api/courses
PostCourse(body, ok) ==
  /\ IF CourseValid(body) /\ ok
     THEN /\ nextCourseId <= MaxCourses
          /\ LET doc == CourseDoc(nextCourseId, body)
             IN  /\ courses' = Save(courses, doc)
                 /\ res' = Respond("PostCourse", doc._id, 201, "",
                                   {View(doc, <<>>)}, <<>>)
          /\ nextCourseId' = nextCourseId + 1
     ELSE /\ res' = Catch("PostCourse", GhostId, 400,
                          IF CourseValid(body) THEN "StorageError"
                          ELSE "ValidationError")
          /\ UNCHANGED <<courses, nextCourseId>>
  /\ UNCHANGED <<students, nextStudentId, req, deleted>>

\* --------------------------------------------------- PUT /api/courses/:id
PutCourse(id, body, ok) ==
  /\ IF ok
     THEN /\ courses' = FindByIdAndUpdate(courses, id, body)
          /\ res' = Respond("PutCourse", id, 200, "", FoundDoc(courses', id), <<>>)
     ELSE /\ res' = Catch("PutCourse", id, 400, "StorageError")
          /\ UNCHANGED courses
  /\ UNCHANGED <<students, nextCourseId, nextStudentId, req, deleted>>

\* Faulty variant: a rejected Student.deleteMany is swallowed, the handler goes on.
AfterDeleteMany_Swallow(ok) == "course"

\* ------------------------------------------------ DELETE /api/courses/:id
\* Where the handler continues after `await Student.deleteMany(...)`:
\* at the Course delete when it resolved, in the catch block when it threw.
AfterDeleteMany(ok) == IF ok THEN "course" ELSE "catch"

DeleteCourse_deleteMany(id, ok) ==
  /\ req["DeleteCourse"].pc = "idle"
  /\ students' = IF ok THEN StudentDeleteMany(students, id) ELSE students
  /\ IF AfterDeleteMany(ok) = "course"
     THEN /\ req' = [req EXCEPT !["DeleteCourse"] =
               [Await("course", id, <<>>, {}, {}) EXCEPT !.threw = ~ok]]
          /\ res' = NoResponse
     ELSE /\ res' = Catch("DeleteCourse", id, 500, "StorageError")
          /\ UNCHANGED req
  /\ UNCHANGED <<courses, nextCourseId, nextStudentId, deleted>>

DeleteCourse_findByIdAndDelete(ok) ==
  /\ req["DeleteCourse"].pc = "course"
  /\ LET id == req["DeleteCourse"].id
     IN  IF ok
         THEN /\ courses' = FindByIdAndDelete(courses, id)
              /\ res' = Respond("DeleteCourse", id, 200,
                                "Course and related students deleted", {}, <<>>)
              /\ deleted' = deleted \cup ({id} \cap DOMAIN courses)
         ELSE /\ res' = Catch("DeleteCourse", id, 500, "StorageError")
              /\ UNCHANGED <<courses, deleted>>
  /\ req' = [req EXCEPT !["DeleteCourse"] = Idle]
  /\ UNCHANGED <<students, nextCourseId, nextStudentId>>

\* ----------------------------------------------------- POST /api/students
PostStudent(body, ok) ==
  /\ IF StudentValid(body) /\ ok
     THEN /\ nextStudentId <= MaxStudents
          /\ LET doc == StudentDoc(nextStudentId, body)
             IN  /\ students' = Save(students, doc)
                 /\ res' = Respond("PostStudent", doc._id, 201, "", {doc}, <<>>)
          /\ nextStudentId' = nextStudentId + 1
     ELSE /\ res' = Catch("PostStudent", GhostId, 400,
                          IF StudentValid(body) THEN "StorageError"
                          ELSE "ValidationError")
          /\ UNCHANGED <<students, nextStudentId>>
  /\ UNCHANGED <<courses, nextCourseId, req, deleted>>

\* -------------------------------------------------- PUT /api/students/:id
PutStudent(id, body, ok) ==
  /\ IF ok
     THEN /\ students' = FindByIdAndUpdate(students, id, body)
          /\ res' = Respond("PutStudent", id, 200, "", FoundDoc(students', id), <<>>)
     ELSE /\ res' = Catch("PutStudent", id, 400, "StorageError")
          /\ UNCHANGED students
  /\ UNCHANGED <<courses, nextCourseId, nextStudentId, req, deleted>>

\* ----------------------------------------------- DELETE /api/students/:id
DeleteStudent(id, ok) ==
  /\ IF ok
     THEN /\ students' = FindByIdAndDelete(students, id)
          /\ res' = Respond("DeleteStudent", id, 200, "Student deleted", {}, <<>>)
     ELSE /\ res' = Catch("DeleteStudent", id, 500, "StorageError")
          /\ UNCHANGED students
  /\ UNCHANGED <<courses, nextCourseId, nextStudentId, req, deleted>>

\* ------------------------------------------------- dashboard aggregates
\* xs.reduce((sum, x) => sum + x, init), left to right
RECURSIVE ReduceSum(_, _)
ReduceSum(xs, init) ==
  IF xs = <<>> THEN init ELSE ReduceSum(Tail(xs), init + Head(xs))

\* A student of a fetched list has both amounts: a path the document lacks
\* is undefined in the list, and a comparison with undefined is false.
HasAmounts(s) == Has(s, "paidAmount") /\ Has(s, "totalFee")

\* Faulty variant: the difference is not floored at zero.
PendingOf_Unfloored(s) == s.totalFee - s.paidAmount

\* s.paidAmount < s.totalFee ? s.totalFee - s.paidAmount : 0
PendingOf(s) ==
  IF HasAmounts(s) /\ s.paidAmount < s.totalFee
  THEN s.totalFee - s.paidAmount ELSE 0

\* Faulty variant: any Student whose amounts differ is counted.
NeedsReminder_Differs(s) == s.paidAmount # s.totalFee

\* (s) => s.paidAmount < s.totalFee
NeedsReminder(s) == HasAmounts(s) /\ s.paidAmount < s.totalFee

\* getFeeStatusBadge: const isPaid = student.paidAmount >= student.totalFee
isPaid(student) == HasAmounts(student) /\ student.paidAmount >= student.totalFee

\* The row of a student offers the WhatsApp reminder button:
\* student.paidAmount < student.totalFee && (<button ...>)
ReminderOffered(student) ==
  HasAmounts(student) /\ student.paidAmount < student.totalFee

\* wa.me/${student.phone}: the phone sendWhatsAppReminder opens (undefined,
\* the empty set, when the document has none).
WhatsAppPhone(student) ==
  IF Has(student, "phone") THEN {student.phone} ELSE {}

\* courses.reduce((sum, c) => sum + (c.students?.length || 0), 0)
totalStudents(list) ==
  ReduceSum([i \in DOMAIN list |-> Len(list[i].students)], 0)

totalCourses(list) == Len(list)

\* courses.reduce((sum, c) => sum + (c.students?.reduce(
\*   (sSum, s) => sSum + (...), 0) || 0), 0)
totalPendingFees(list) ==
  ReduceSum([i \in DOMAIN list |->
               ReduceSum([j \in DOMAIN list[i].students |->
                            PendingOf(list[i].students[j])], 0)], 0)

\* courses.reduce((sum, c) => sum + (c.students?.filter(...).length || 0), 0)
reminders(list) ==
  ReduceSum([i \in DOMAIN list |->
               Len(SelectSeq(list[i].students, NeedsReminder))], 0)

\* ------------------------------------------------------ the student form
\* The text of an input is a sequence of one-character strings.
DigitChars == <<"0", "1", "2", "3", "4", "5", "6", "7", "8", "9">>

IsDigit(c) == \E d \in DOMAIN DigitChars : DigitChars[d] = c

DigitOf(c) == (CHOOSE d \in DOMAIN DigitChars : DigitChars[d] = c) - 1

RECURSIVE LeadingDigits(_)
LeadingDigits(t) ==
  IF t = <<>> \/ ~IsDigit(Head(t)) THEN <<>>
  ELSE <<Head(t)>> \o LeadingDigits(Tail(t))

RECURSIVE DigitsValue(_, _)
DigitsValue(t, acc) ==
  IF t = <<>> THEN acc ELSE DigitsValue(Tail(t), 10 * acc + DigitOf(Head(t)))

\* parseInt(text): an optional sign, then the leading digits; NaN (the empty
\* set) when there is no digit.
parseInt(t) ==
  LET signed == t # <<>> /\ Head(t) \in {"-", "+"}
      digits == LeadingDigits(IF signed THEN Tail(t) ELSE t)
  IN  IF digits = <<>> THEN {}
      ELSE IF signed /\ Head(t) = "-" THEN {0 - DigitsValue(digits, 0)}
      ELSE {DigitsValue(digits, 0)}

\* parsed || fallback: NaN and 0 are falsy.
OrElse(parsed, fallback) ==
  IF parsed = {} \/ parsed = {0} THEN fallback ELSE CHOOSE n \in parsed : TRUE

RECURSIVE NatText(_)
NatText(n) ==
  IF n < 10 THEN <<DigitChars[n + 1]>>
  ELSE NatText(n \div 10) \o <<DigitChars[(n % 10) + 1]>>

\* The text of a number in an input's defaultValue.
NumberText(n) == IF n < 0 THEN <<"-">> \o NatText(0 - n) ELSE NatText(n)

startsWith(t, c) == t # <<>> /\ Head(t) = c

\* text.replace(pattern, by) with a string pattern: the first occurrence.
RECURSIVE replace(_, _, _)
replace(t, pattern, by) ==
  IF Len(t) < Len(pattern) THEN t
  ELSE IF SubSeq(t, 1, Len(pattern)) = pattern
       THEN by \o SubSeq(t, Len(pattern) + 1, Len(t))
       ELSE <<Head(t)>> \o replace(Tail(t), pattern, by)

CountryCode == <<"+", "9", "1">>

\* form.phone.value.startsWith("+") ? form.phone.value : `+91${...}`
NormalizePhone(value) ==
  IF startsWith(value, "+") THEN value ELSE CountryCode \o value

\* parseInt(form.totalFee.value) || 18000
DefaultTotalFee == 18000

\* The defaultValue of the inputs of the student form; editingStudent is
\* null (the empty set) or the student edited.
StudentFormDefaults(editingStudent) ==
  IF editingStudent = {}
  THEN [studentName |-> "", email |-> "", phone |-> <<>>,
        totalFee |-> NumberText(DefaultTotalFee), paidAmount |-> NumberText(0)]
  ELSE LET e == CHOOSE x \in editingStudent : TRUE
       IN  [studentName |-> e.name, email |-> e.email,
            phone |-> IF Has(e, "phone") THEN replace(e.phone, CountryCode, <<>>)
                      ELSE <<>>,
            totalFee |-> NumberText(IF Has(e, "totalFee") /\ e.totalFee # 0
                                    THEN e.totalFee ELSE DefaultTotalFee),
            paidAmount |-> NumberText(IF Has(e, "paidAmount") THEN e.paidAmount
                                      ELSE 0)]

\* The form can be submitted: its required inputs are filled in.
StudentFormValid(form) ==
  /\ form.studentName # "" /\ form.email # ""
  /\ form.phone # <<>> /\ form.totalFee # <<>>

\* handleSaveStudent: the data sent for the form's values.
StudentFormData(form, editingStudent, selectedCourse) ==
  [name |-> form.studentName,
   email |-> form.email,
   phone |-> NormalizePhone(form.phone),
   totalFee |-> OrElse(parseInt(form.totalFee), DefaultTotalFee),
   paidAmount |-> OrElse(parseInt(form.paidAmount), 0),
   reminderMessage |->
     IF editingStudent # {}
        /\ Has(CHOOSE x \in editingStudent : TRUE, "reminderMessage")
     THEN (CHOOSE x \in editingStudent : TRUE).reminderMessage ELSE "",
   courseId |-> selectedCourse._id]

\* handleSaveCourse: the data sent for the title entered.
CourseFormData(title) == [title |-> title, language |-> "English"]

\* --------------------------------------------- the component's requests
The(S) == CHOOSE x \in S : TRUE

\* axios.get/post/put/delete awaited by the handler `from`.  History: n
\* numbers the requests in the order the component issued them, changed
\* holds the state the handler set before its await (what it was and is).
Request(n, route, id, body, from, changed) ==
  [n |-> n, route |-> route, id |-> id, body |-> body, from |-> from,
   changed |-> changed]

\* The response r of the backend to the request m, on its way back.
Reply(m, r) ==
  [n |-> m.n, route |-> m.route, from |-> m.from, status |-> r.status,
   data |-> r.data, changed |-> m.changed]

\* A write request of the component has not completed.
WriteInFlight(traffic) ==
  \E m \in traffic.requests \cup traffic.serving \cup traffic.responses :
    m.route # "GetCourses"

\* History: the reminder edits made in a row.  The first edit of a Student,
\* made when every earlier write has completed, records the stored document
\* and the message; a further edit records its message; any other write
\* ends the row.
Row(traffic, route, id, body, from) ==
  IF route = "GetCourses" THEN traffic.row
  ELSE IF from # "updateStudentReminder" THEN << >>
  ELSE IF id \in DOMAIN traffic.row
  THEN [traffic.row EXCEPT ![id].last = body.reminderMessage]
  ELSE IF ~WriteInFlight(traffic) /\ id \in DOMAIN students
  THEN [i \in DOMAIN traffic.row \cup {id} |->
          IF i = id
          THEN [before |-> students[id], last |-> body.reminderMessage]
          ELSE traffic.row[i]]
  ELSE traffic.row

\* The traffic after the component issued a request; writes counts the
\* requests that are not the list request.
Send(traffic, route, id, body, from, changed) ==
  [traffic EXCEPT
     !.requests = @ \cup {Request(traffic.issued + 1, route, id, body, from,
                                  changed)},
     !.issued = @ + 1,
     !.writes = IF route = "GetCourses" THEN @ ELSE @ + 1,
     !.row = Row(traffic, route, id, body, from)]

\* The traffic after the response r was delivered to its handler.
Delivered(traffic, r) ==
  [traffic EXCEPT !.responses = @ \ {r},
                  !.rejected = @ \/ r.status \notin 200..299]

\* fetchCourses(): the list request is issued.
Fetch(traffic) ==
  Send(traffic, "GetCourses", GhostId, <<>>, "fetchCourses", << >>)

\* The requests of a route that have not reached their handler yet.
Arrived(route) == {m \in net.requests : m.route = route}

\* The request a suspended handler of the route is serving.
InService(route) == CHOOSE m \in net.serving : m.route = route

\* The backend step served the component's request m: m is with its handler
\* while the handler is suspended, and its response travels back once sent.
Served(m) ==
  /\ net' = IF res'.kind = "none"
            THEN [net EXCEPT !.requests = @ \ {m}, !.serving = @ \cup {m}]
            ELSE [net EXCEPT !.requests = @ \ {m}, !.serving = @ \ {m},
                             !.responses = @ \cup {Reply(m, res')}]
  /\ UNCHANGED ui

\* No request of the component is on its way, with a handler, or answered
\* and not yet delivered.
NoneInFlight == net.requests = {} /\ net.serving = {} /\ net.responses = {}

\* axios resolves on a 2xx status and rejects otherwise.
Resolved(r) == r.status \in 200..299

\* ------------------------------------------------------- what is rendered
\* if (loading) ...; if (!selectedCourse && courses.length === 0) ...;
\* if (!selectedCourse && courses.length > 0) return null; the dashboard.
Screen ==
  IF ui.loading THEN "loading"
  ELSE IF ui.selectedCourse = {} /\ ui.courses = <<>> THEN "empty"
  ELSE IF ui.selectedCourse = {} THEN "blank"
  ELSE "dashboard"

\* A modal of the dashboard is rendered; its overlay covers the page.
ModalOpen ==
  \/ ui.showStudentDetailModal /\ ui.selectedStudent # {}
  \/ ui.showCourseModal
  \/ ui.showStudentModal

\* The buttons of the dashboard page can be clicked.
PageEnabled == Screen = "dashboard" /\ ~ModalOpen

CourseModalShown == ui.showCourseModal /\ Screen \in {"empty", "dashboard"}

StudentModalShown == ui.showStudentModal /\ Screen = "dashboard"

DetailModalShown ==
  /\ ui.showStudentDetailModal /\ ui.selectedStudent # {}
  /\ Screen = "dashboard"

\* The component re-renders after a handler ran and the effect copies
\* selectedCourse into selectedCourseRef; said is what the handler told the
\* user (alert, console.error), "" if nothing.
Rendered(u, said) ==
  [u EXCEPT !.selectedCourseRef = u.selectedCourse, !.alert = said]

\* A step of the component: the backend does nothing.
Frontend ==
  /\ res' = NoResponse
  /\ UNCHANGED <<courses, students, nextCourseId, nextStudentId, req, deleted>>

\* The students shown in the table of the selected course.
Rows == The(ui.selectedCourse).students

\* ------------------------------------------------- the user's selections
\* onClick={() => setSelectedCourse(course)} in the course selector
SelectCourse(i) ==
  /\ PageEnabled /\ i \in DOMAIN ui.courses
  /\ ui' = Rendered([ui EXCEPT !.selectedCourse = {ui.courses[i]}], "")
  /\ UNCHANGED net /\ Frontend

\* "Create First Course" / "New Course"
NewCourse ==
  /\ PageEnabled \/ (Screen = "empty" /\ ~ui.showCourseModal)
  /\ ui' = Rendered([ui EXCEPT !.editingCourse = {},
                               !.showCourseModal = TRUE], "")
  /\ UNCHANGED net /\ Frontend

\* The pencil button of the selected course
EditCourse ==
  /\ PageEnabled
  /\ ui' = Rendered([ui EXCEPT !.editingCourse = ui.selectedCourse,
                               !.showCourseModal = TRUE], "")
  /\ UNCHANGED net /\ Frontend

\* Cancel in the course modal (the modal of the empty screen keeps
\* editingCourse).
CancelCourse ==
  /\ CourseModalShown
  /\ ui' = Rendered(IF Screen = "empty"
                    THEN [ui EXCEPT !.showCourseModal = FALSE]
                    ELSE [ui EXCEPT !.showCourseModal = FALSE,
                                    !.editingCourse = {}], "")
  /\ UNCHANGED net /\ Frontend

\* "Add Student"
NewStudent ==
  /\ PageEnabled
  /\ ui' = Rendered([ui EXCEPT !.editingStudent = {},
                               !.showStudentModal = TRUE], "")
  /\ UNCHANGED net /\ Frontend

\* The pencil button of a row
EditStudent(j) ==
  /\ PageEnabled /\ j \in DOMAIN Rows
  /\ ui' = Rendered([ui EXCEPT !.editingStudent = {Rows[j]},
                               !.showStudentModal = TRUE], "")
  /\ UNCHANGED net /\ Frontend

\* Cancel in the student modal
CancelStudent ==
  /\ StudentModalShown
  /\ ui' = Rendered([ui EXCEPT !.showStudentModal = FALSE,
                               !.editingStudent = {}], "")
  /\ UNCHANGED net /\ Frontend

openStudentDetail(j) ==
  /\ PageEnabled /\ j \in DOMAIN Rows
  /\ ui' = Rendered([ui EXCEPT !.selectedStudent = {Rows[j]},
                               !.showStudentDetailModal = TRUE], "")
  /\ UNCHANGED net /\ Frontend

\* Close in the student detail modal
CloseStudentDetail ==
  /\ DetailModalShown
  /\ ui' = Rendered([ui EXCEPT !.showStudentDetailModal = FALSE], "")
  /\ UNCHANGED net /\ Frontend

\* --------------------------------------- the handlers, up to their await
\* The user may start another write (a bound of the model).
MayWrite == net.writes < MaxWrites

handleSaveCourse(title) ==
  /\ CourseModalShown /\ title # "" /\ MayWrite
  /\ net' = IF ui.editingCourse # {}
            THEN Send(net, "PutCourse", The(ui.editingCourse)._id,
                      CourseFormData(title), "handleSaveCourse", << >>)
            ELSE Send(net, "PostCourse", GhostId, CourseFormData(title),
                      "handleSaveCourse", << >>)
  /\ ui' = Rendered(ui, "")
  /\ Frontend

\* The trash button of the selected course, confirmed.
handleDeleteCourse ==
  /\ PageEnabled /\ MayWrite
  /\ net' = Send(net, "DeleteCourse", The(ui.selectedCourse)._id, <<>>,
                 "handleDeleteCourse", << >>)
  /\ ui' = Rendered(ui, "")
  /\ Frontend

\* The form is submitted with the inputs of typed changed by the user and
\* the others at their defaultValue.
handleSaveStudent(typed) ==
  LET form == Merge(StudentFormDefaults(ui.editingStudent), typed)
      data == StudentFormData(form, ui.editingStudent, The(ui.selectedCourse))
  IN  /\ StudentModalShown /\ StudentFormValid(form) /\ MayWrite
      /\ net' = IF ui.editingStudent # {}
                THEN Send(net, "PutStudent", The(ui.editingStudent)._id, data,
                          "handleSaveStudent", << >>)
                ELSE Send(net, "PostStudent", GhostId, data,
                          "handleSaveStudent", << >>)
      /\ ui' = Rendered(ui, "")
      /\ Frontend

\* The trash button of a row, confirmed.
handleDeleteStudent(j) ==
  /\ PageEnabled /\ j \in DOMAIN Rows /\ MayWrite
  /\ net' = Send(net, "DeleteStudent", Rows[j]._id, <<>>,
                 "handleDeleteStudent", << >>)
  /\ ui' = Rendered(ui, "")
  /\ Frontend

\* setSelectedStudent(prev => ({ ...prev, reminderMessage: message }))
Optimistic(student, message) == Merge(student, [reminderMessage |-> message])

\* onChange of the reminder textarea: the optimistic update, then the PUT of
\* { ...selectedStudent, reminderMessage: message }.
updateStudentReminder(message) ==
  /\ DetailModalShown /\ ReminderOffered(The(ui.selectedStudent)) /\ MayWrite
  /\ LET student == The(ui.selectedStudent)
     IN  /\ ui' = Rendered([ui EXCEPT !.selectedStudent =
                                        {Optimistic(student, message)}], "")
         /\ net' = Send(net, "PutStudent", student._id,
                        Merge(student, [reminderMessage |-> message]),
                        "updateStudentReminder",
                        [selectedStudent |->
                           [was |-> ui.selectedStudent,
                            is |-> ui'.selectedStudent]])
  /\ Frontend

\* --------------------------------------- the handlers, after their await
\* fetchCourses after `await axios.get`: setCourses(res.data), then the
\* selection is looked up in the list by the _id the ref holds.
AfterFetch(u, data) ==
  LET current == u.selectedCourseRef
      hits == IF current = {} THEN <<>>
              ELSE SelectSeq(data, LAMBDA c : c._id = The(current)._id)
  IN  [u EXCEPT
         !.courses = data,
         !.selectedCourse =
           IF current # {}
           THEN (IF hits # <<>> THEN {hits[1]}
                 ELSE IF data # <<>> THEN {data[1]} ELSE {})
           ELSE IF Len(data) > 0 THEN {data[1]} ELSE u.selectedCourse,
         !.loading = FALSE]

fetchCourses_then(r) ==
  /\ r \in net.responses /\ r.from = "fetchCourses"
  /\ ui' = IF Resolved(r) THEN Rendered(AfterFetch(ui, r.data), "")
           ELSE Rendered([ui EXCEPT !.loading = FALSE],
                         "Error fetching courses:")
  /\ net' = Delivered(net, r)
  /\ Frontend

\* Faulty variant: the list is not reloaded after the write.
Reload_Never(traffic) == traffic

\* The fetchCourses() call that follows the awaited write of a handler.
Reload(traffic) == Fetch(traffic)

handleSaveCourse_then(r) ==
  /\ r \in net.responses /\ r.from = "handleSaveCourse"
  /\ LET rest == Delivered(net, r)
     IN  IF Resolved(r)
         THEN /\ net' = Reload(rest)
              /\ ui' = Rendered([ui EXCEPT !.showCourseModal = FALSE,
                                           !.editingCourse = {}], "")
         ELSE /\ net' = rest
              /\ ui' = Rendered(ui, "Error saving course: ")
  /\ Frontend

handleDeleteCourse_then(r) ==
  /\ r \in net.responses /\ r.from = "handleDeleteCourse"
  /\ LET rest == Delivered(net, r)
     IN  IF Resolved(r)
         THEN /\ net' = Reload(rest)
              /\ ui' = Rendered([ui EXCEPT !.selectedCourse = {}], "")
         ELSE /\ net' = rest
              /\ ui' = Rendered(ui, "Error deleting course: ")
  /\ Frontend

handleSaveStudent_then(r) ==
  /\ r \in net.responses /\ r.from = "handleSaveStudent"
  /\ LET rest == Delivered(net, r)
     IN  IF Resolved(r)
         THEN /\ net' = Reload(rest)
              /\ ui' = Rendered([ui EXCEPT !.showStudentModal = FALSE,
                                           !.editingStudent = {}], "")
         ELSE /\ net' = rest
              /\ ui' = Rendered(ui, "Error saving student: ")
  /\ Frontend

handleDeleteStudent_then(r) ==
  /\ r \in net.responses /\ r.from = "handleDeleteStudent"
  /\ LET rest == Delivered(net, r)
     IN  IF Resolved(r)
         THEN /\ net' = Reload(rest)
              /\ ui' = Rendered(ui, "")
         ELSE /\ net' = rest
              /\ ui' = Rendered(ui, "Error deleting student: ")
  /\ Frontend

updateStudentReminder_then(r) ==
  /\ r \in net.responses /\ r.from = "updateStudentReminder"
  /\ LET rest == Delivered(net, r)
     IN  IF Resolved(r)
         THEN /\ net' = Reload(rest)
              /\ ui' = Rendered(ui, "")
         ELSE /\ net' = rest
              /\ ui' = Rendered(ui, "Error updating reminder")
  /\ Frontend

\* The database the component is mounted on: a Course and a Student of it
\* who has paid nothing, saved earlier through the component's forms.
SeedCourse == CourseDoc(1, CourseFormData("Math 101"))

SeedStudent ==
  StudentDoc(1, StudentFormData(
    [studentName |-> "Alice", email |-> "alice@example.org",
     phone |-> <<"5">>, totalFee |-> NumberText(MaxFee),
     paidAmount |-> NumberText(0)], {}, SeedCourse))

\* The component is mounted: the effect of the initial load has issued the
\* first list request.
InitMounted ==
  /\ courses = Save(<< >>, SeedCourse)
  /\ students = Save(<< >>, SeedStudent)
  /\ nextCourseId = 2
  /\ nextStudentId = 2
  /\ req = [r \in Routes |-> Idle]
  /\ res = NoResponse
  /\ deleted = {}
  /\ ui = Unmounted
  /\ net = Fetch(NoTraffic)

\* ------------------------------------------------------------ specification
\* A step of the backend serving a request that is not the component's.
Backend == UNCHANGED <<ui, net>>

\* No handler is suspended at an await.
Quiet == \A r \in Routes : req[r].pc = "idle"

AllTitles == {"Math 101", "Physics"}

\* Requests served one at a time: a request is received when the previous
\* one has been answered.  Student bodies carry every amount of Fees, course
\* updates every title of AllTitles.
Next ==
  \E ok \in BOOLEAN :
    \/ Quiet /\ GetCourses_CourseFind(ok) /\ Backend
    \/ \E i \in req["GetCourses"].todo : GetCourses_StudentFind(i, ok) /\ Backend
    \/ Quiet /\ \E body \in CourseBodies : PostCourse(body, ok) /\ Backend
    \/ Quiet /\ \E id \in KnownCourseIds, body \in CourseUpdates(AllTitles) :
                  PutCourse(id, body, ok) /\ Backend
    \/ Quiet /\ \E id \in KnownCourseIds : DeleteCourse_deleteMany(id, ok) /\ Backend
    \/ DeleteCourse_findByIdAndDelete(ok) /\ Backend
    \/ Quiet /\ \E body \in StudentBodies(Fees) : PostStudent(body, ok) /\ Backend
    \/ Quiet /\ \E id \in KnownStudentIds, body \in StudentUpdates(Fees) :
                  PutStudent(id, body, ok) /\ Backend
    \/ Quiet /\ \E id \in KnownStudentIds : DeleteStudent(id, ok) /\ Backend

Spec == Init /\ [][Next]_vars

\* Requests served concurrently: the handlers interleave at their awaits.
\* Student bodies carry the amount MaxFee, course updates the title
\* "Math 101".
NextConcurrent ==
  \E ok \in BOOLEAN :
    \/ GetCourses_CourseFind(ok) /\ Backend
    \/ \E i \in req["GetCourses"].todo : GetCourses_StudentFind(i, ok) /\ Backend
    \/ \E body \in CourseBodies : PostCourse(body, ok) /\ Backend
    \/ \E id \in KnownCourseIds, body \in CourseUpdates({"Math 101"}) :
         PutCourse(id, body, ok) /\ Backend
    \/ \E id \in KnownCourseIds : DeleteCourse_deleteMany(id, ok) /\ Backend
    \/ DeleteCourse_findByIdAndDelete(ok) /\ Backend
    \/ \E body \in StudentBodies({MaxFee}) : PostStudent(body, ok) /\ Backend
    \/ \E id \in KnownStudentIds, body \in StudentUpdates({MaxFee}) :
         PutStudent(id, body, ok) /\ Backend
    \/ \E id \in KnownStudentIds : DeleteStudent(id, ok) /\ Backend

SpecConcurrent == Init /\ [][NextConcurrent]_vars

\* ------------------------------------------- the component and the backend
\* What the user types into the student form: every required input of an
\* empty form, or some inputs of the form of a student edited.
TypedNew(P, T, A) ==
  {[studentName |-> "Alice", email |-> "alice@example.org", phone |-> p,
    totalFee |-> t, paidAmount |-> a] : p \in P, t \in T, a \in A}

TypedEdit(P, T, A) ==
  {<< >>} \cup {[phone |-> p] : p \in P} \cup {[totalFee |-> t] : t \in T}
    \cup {[paidAmount |-> a] : a \in A}

Typed(P, T, A) ==
  IF ui.editingStudent = {} THEN TypedNew(P, T, A) ELSE TypedEdit(P, T, A)

Messages == {"pay", "now"}

\* The component mounted on the backend, its requests served concurrently
\* and delivered in any order; the user acts at any time.  Students are
\* entered with the fee MaxFee and nothing paid, and edited to paid.
NextMounted ==
  \/ \E ok \in BOOLEAN :
       \/ \E m \in Arrived("GetCourses") : GetCourses_CourseFind(ok) /\ Served(m)
       \/ \E i \in req["GetCourses"].todo :
            GetCourses_StudentFind(i, ok) /\ Served(InService("GetCourses"))
       \/ \E m \in Arrived("PostCourse") : PostCourse(m.body, ok) /\ Served(m)
       \/ \E m \in Arrived("PutCourse") : PutCourse(m.id, m.body, ok) /\ Served(m)
       \/ \E m \in Arrived("DeleteCourse") :
            DeleteCourse_deleteMany(m.id, ok) /\ Served(m)
       \/ DeleteCourse_findByIdAndDelete(ok) /\ Served(InService("DeleteCourse"))
       \/ \E m \in Arrived("PostStudent") : PostStudent(m.body, ok) /\ Served(m)
       \/ \E m \in Arrived("PutStudent") : PutStudent(m.id, m.body, ok) /\ Served(m)
       \/ \E m \in Arrived("DeleteStudent") : DeleteStudent(m.id, ok) /\ Served(m)
  \/ \E i \in DOMAIN ui.courses : SelectCourse(i)
  \/ NewCourse
  \/ EditCourse
  \/ CancelCourse
  \/ NewStudent
  \/ \E j \in 1..MaxStudents : EditStudent(j)
  \/ CancelStudent
  \/ \E j \in 1..MaxStudents : openStudentDetail(j)
  \/ CloseStudentDetail
  \/ handleSaveCourse("Math 101")
  \/ handleDeleteCourse
  \/ \E typed \in Typed({<<"5">>}, {NumberText(MaxFee)},
                        {NumberText(0), NumberText(MaxFee)}) :
       handleSaveStudent(typed)
  \/ \E j \in 1..MaxStudents : handleDeleteStudent(j)
  \/ \E message \in Messages : updateStudentReminder(message)
  \/ \E r \in net.responses : fetchCourses_then(r)
  \/ \E r \in net.responses : handleSaveCourse_then(r)
  \/ \E r \in net.responses : handleDeleteCourse_then(r)
  \/ \E r \in net.responses : handleSaveStudent_then(r)
  \/ \E r \in net.responses : handleDeleteStudent_then(r)
  \/ \E r \in net.responses : updateStudentReminder_then(r)

SpecMounted == InitMounted /\ [][NextMounted]_vars


\* ------------------------------------------------- the student form at work
\* The texts of at most n characters of C that are not empty.
RECURSIVE Texts(_, _)
Texts(C, n) ==
  IF n = 0 THEN {}
  ELSE LET shorter == Texts(C, n - 1)
       IN  {<<c>> : c \in C} \cup shorter
             \cup {t \o <<c>> : t \in shorter, c \in C}

PhoneChars == {"+", "9", "1"}

Phones == Texts(PhoneChars, MaxPhoneLen)

\* The numbers a number input takes, as text: the amounts of Fees, signed.
AmountTexts == {NumberText(n) : n \in Fees} \cup {NumberText(0 - n) : n \in Fees}

\* What the user types: a new student with one phone of Phones or with
\* amounts of AmountTexts (the paid amount may stay empty); in the form of a
\* student edited, nothing or an amount.
TypedStudents ==
  IF ui.editingStudent = {}
  THEN TypedNew(Phones, {NumberText(MaxFee)}, {NumberText(0)})
         \cup TypedNew({<<"5">>}, AmountTexts, AmountTexts \cup {<<>>})
  ELSE TypedEdit({}, AmountTexts, AmountTexts \cup {<<>>})

\* Bodies sent to POST /api/students by a client other than the component:
\* the amounts left out, or negative.
OtherBodies ==
  {[name |-> "Bob", email |-> "bob@example.org", courseId |-> 1]}
    \cup {[name |-> "Bob", email |-> "bob@example.org", courseId |-> 1,
           totalFee |-> t, paidAmount |-> 0 - MaxFee] : t \in Fees}

\* A write of another client was served; it counts as a write started.
Other ==
  /\ MayWrite
  /\ net' = [net EXCEPT !.writes = @ + 1, !.row = << >>]
  /\ UNCHANGED ui

\* The component's student form on the backend, one request at a time: the
\* user (and the other client) acts when no request is in flight.
NextForm ==
  \/ \E ok \in BOOLEAN :
       \/ \E m \in Arrived("GetCourses") : GetCourses_CourseFind(ok) /\ Served(m)
       \/ \E i \in req["GetCourses"].todo :
            GetCourses_StudentFind(i, ok) /\ Served(InService("GetCourses"))
       \/ \E m \in Arrived("PostStudent") : PostStudent(m.body, ok) /\ Served(m)
       \/ \E m \in Arrived("PutStudent") : PutStudent(m.id, m.body, ok) /\ Served(m)
       \/ NoneInFlight /\ \E body \in OtherBodies : PostStudent(body, ok) /\ Other
  \/ NoneInFlight /\ NewStudent
  \/ NoneInFlight /\ \E j \in 1..MaxStudents : EditStudent(j)
  \/ NoneInFlight /\ CancelStudent
  \/ NoneInFlight /\ \E typed \in TypedStudents : handleSaveStudent(typed)
  \/ \E r \in net.responses : fetchCourses_then(r)
  \/ \E r \in net.responses : handleSaveStudent_then(r)

SpecForm == InitMounted /\ [][NextForm]_vars

\* ------------------------------------------------------------------ claims
Listed == res.kind = "GetCourses" /\ res.status = 200

\* coll without the documents whose id is in gone, the others as they were.
Without(coll, gone) == [i \in DOMAIN coll \ gone |-> coll[i]]

StudentsOf(st, courseId) == {s \in DOMAIN st : st[s].courseId = courseId}

\* C1: in every state in which no Delete Course request is in progress,
\* every stored Student's courseId is the id of a stored Course.
C1_NoOrphans ==
  req["DeleteCourse"].pc = "idle" =>
    \A s \in DOMAIN students : students[s].courseId \in DOMAIN courses

\* C2: the Student deletion of Delete Course on c removes exactly the
\* Students of c, its Course deletion removes exactly c, every other record
\* stays as it was; a list received after the delete was answered returns no
\* Student of c, whatever ran concurrently with the delete.
C2_CascadeExact ==
  /\ [][\A id \in KnownCourseIds :
          DeleteCourse_deleteMany(id, TRUE) =>
            /\ students' = Without(students, StudentsOf(students, id))
            /\ courses' = courses]_vars
  /\ [][DeleteCourse_findByIdAndDelete(TRUE) =>
          /\ courses' = Without(courses, {req["DeleteCourse"].id})
          /\ students' = students
          /\ res'.status = 200]_vars
  /\ [](Listed =>
          \A i \in DOMAIN res.data : \A j \in DOMAIN res.data[i].students :
            res.data[i].students[j].courseId \notin res.after)

\* C2 witness: a list received after Course c was removed is answered while
\* a Student of c (created or moved there during the delete) is stored.
C2_Witness ==
  /\ Listed /\ res.data # <<>>
  /\ \E s \in DOMAIN students : students[s].courseId \in res.after

\* C3: Create Student with a courseId of no stored Course is answered with
\* an error and stores nothing.
C3_UnknownCourseRejected ==
  [][\A body \in StudentBodies(Fees), ok \in BOOLEAN :
       (PostStudent(body, ok) /\ Has(body, "courseId")
          /\ body.courseId \notin DOMAIN courses) =>
         (res'.status >= 400 /\ students' = students)]_vars

\* C4: the Course delete is attempted only after the Student deletion
\* resolved; when the Student deletion throws, the request is answered 500
\* and the step leaves every Course and Student stored.
C4_StudentsFirst ==
  /\ [](req["DeleteCourse"].pc = "course" => ~req["DeleteCourse"].threw)
  /\ [][\A id \in KnownCourseIds :
          DeleteCourse_deleteMany(id, FALSE) =>
            /\ students' = students /\ courses' = courses
            /\ req'["DeleteCourse"].pc = "idle"
            /\ res'.kind = "DeleteCourse" /\ res'.status = 500]_vars
  /\ [][DOMAIN courses \ DOMAIN courses' # {} =>
          req["DeleteCourse"].pc = "course"]_vars

\* C4 witness: a Delete Course was answered 500 and its Course and a Student
\* of it are stored.
C4_Witness ==
  /\ res.kind = "DeleteCourse" /\ res.status = 500
  /\ res.id \in DOMAIN courses
  /\ StudentsOf(students, res.id) # {}

\* C5: Update Course and Update Student on an id of no stored record are
\* answered with an error, and no record is created or changed.
C5_UnknownIdRejected ==
  [][/\ \A id \in KnownCourseIds, body \in CourseUpdates(AllTitles) :
          (PutCourse(id, body, TRUE) /\ id \notin DOMAIN courses) =>
            (res'.status >= 400 /\ courses' = courses /\ students' = students)
     /\ \A id \in KnownStudentIds, body \in StudentUpdates(Fees) :
          (PutStudent(id, body, TRUE) /\ id \notin DOMAIN students) =>
            (res'.status >= 400 /\ courses' = courses /\ students' = students)]_vars

\* C6: Delete Student answers 200 with the confirmation whether or not the
\* id is stored; an unknown id changes nothing, a known id removes that
\* Student only; the Courses stay as they were.
C6_DeleteStudentIdempotent ==
  [][\A id \in KnownStudentIds :
       DeleteStudent(id, TRUE) =>
         /\ res'.status = 200 /\ res'.message = "Student deleted"
         /\ courses' = courses
         /\ students' = Without(students, {id})
         /\ (id \notin DOMAIN students => students' = students)]_vars

\* C6 witness: Delete Student on an id of no stored Student was answered 200
\* while another Student is stored.
C6_Witness ==
  /\ res.kind = "DeleteStudent" /\ res.status = 200
  /\ res.id \notin DOMAIN students /\ res.id = GhostId
  /\ students # << >>

\* C7: Delete Course on an id of no stored Course is answered with the
\* confirmation, deletes no Student whose courseId differs from the id, and
\* leaves the Courses as they were.
C7_DeleteUnknownCourse ==
  /\ [][\A id \in KnownCourseIds :
          (DeleteCourse_deleteMany(id, TRUE) /\ id \notin DOMAIN courses) =>
            /\ \A s \in DOMAIN students :
                 students[s].courseId # id =>
                   s \in DOMAIN students' /\ students'[s] = students[s]
            /\ courses' = courses]_vars
  /\ [][(DeleteCourse_findByIdAndDelete(TRUE)
           /\ req["DeleteCourse"].id \notin DOMAIN courses) =>
          /\ courses' = courses /\ students' = students
          /\ res'.status = 200
          /\ res'.message = "Course and related students deleted"]_vars

\* C7 witness: Delete Course on an id of no Course was answered 200 while a
\* Course and a Student of it are stored.
C7_Witness ==
  /\ res.kind = "DeleteCourse" /\ res.status = 200 /\ res.id = GhostId
  /\ \E s \in DOMAIN students : students[s].courseId \in DOMAIN courses

\* The list a GET /api/courses handler holds after a step: the one it
\* answered with, or the one it keeps while lookups are pending.
ListAfter(answered, kept) == IF answered.kind = "GetCourses" THEN answered.data ELSE kept.data

\* C8 as claimed: in every list returned, every Course appears once, every
\* Student appears under the Course it references and under no second one.
C8_NoStudentUnderTwoCourses ==
  Listed =>
    /\ \A i, k \in DOMAIN res.data : res.data[i]._id = res.data[k]._id => i = k
    /\ \A i \in DOMAIN res.data : \A j \in DOMAIN res.data[i].students :
         /\ res.data[i].students[j].courseId = res.data[i]._id
         /\ \A k \in DOMAIN res.data : \A l \in DOMAIN res.data[k].students :
              res.data[k].students[l]._id = res.data[i].students[j]._id => k = i

\* C8 as amended: the list holds every Course stored when Course.find ran,
\* once; each Course carries exactly the Students whose courseId equalled
\* its id when its own lookup ran (none: the empty sequence), so every
\* Student listed under a Course referenced it at that lookup.
C8_ListPerLookup ==
  /\ [][GetCourses_CourseFind(TRUE) =>
          LET d == ListAfter(res', req'["GetCourses"])
          IN  /\ Len(d) = Cardinality(DOMAIN courses)
              /\ \A id \in DOMAIN courses :
                   \E i \in DOMAIN d : d[i] = View(courses[id], <<>>)]_vars
  /\ [][\A i \in req["GetCourses"].todo :
          GetCourses_StudentFind(i, TRUE) =>
            LET d == ListAfter(res', req'["GetCourses"])
                v == d[i]
                of == StudentsOf(students, v._id)
            IN  /\ Len(v.students) = Cardinality(of)
                /\ Range(v.students) = {students[s] : s \in of}
                /\ View(v, <<>>) = View(req["GetCourses"].data[i], <<>>)
                /\ \A k \in DOMAIN d \ {i} : d[k] = req["GetCourses"].data[k]]_vars
  /\ [](Listed =>
          /\ \A i, k \in DOMAIN res.data :
               res.data[i]._id = res.data[k]._id => i = k
          /\ \A i \in DOMAIN res.data : \A j \in DOMAIN res.data[i].students :
               res.data[i].students[j].courseId = res.data[i]._id)

\* C8 witness: a list of two Courses was returned, one carrying a Student,
\* the other the empty sequence.
C8_Witness ==
  /\ Listed /\ Len(res.data) = 2
  /\ res.data[1].students # <<>>
  /\ res.data[2].students = <<>>

\* The positions <<course, student>> of the Students of a list.
Positions(list) ==
  UNION {{<<i, j>> : j \in DOMAIN list[i].students} : i \in DOMAIN list}

StudentAt(list, p) == list[p[1]].students[p[2]]

Max(a, b) == IF a >= b THEN a ELSE b

\* The sum of the values of f, a function on a finite set.
RECURSIVE SumOver(_)
SumOver(f) ==
  IF DOMAIN f = {} THEN 0
  ELSE LET x == CHOOSE y \in DOMAIN f : TRUE
       IN  f[x] + SumOver([y \in DOMAIN f \ {x} |-> f[y]])

\* C9: totalPendingFees of a fetched list is the sum over all its Students
\* of max(0, totalFee - paidAmount); no Student contributes a negative
\* amount, one with paidAmount > totalFee contributes 0, and so does a
\* Course without Students.
C9_PendingFees ==
  Listed =>
    /\ totalPendingFees(res.data) =
         SumOver([p \in Positions(res.data) |->
                    Max(0, StudentAt(res.data, p).totalFee
                             - StudentAt(res.data, p).paidAmount)])
    /\ \A p \in Positions(res.data) :
         LET s == StudentAt(res.data, p)
         IN  PendingOf(s) >= 0 /\ (s.paidAmount > s.totalFee => PendingOf(s) = 0)
    /\ \A i \in DOMAIN res.data :
         res.data[i].students = <<>> => totalPendingFees(<<res.data[i]>>) = 0

\* C9 witness: a fetched list with a Student who paid more than the fee, one
\* who paid less, and a Course without Students.
C9_Witness ==
  /\ Listed
  /\ \E p, q \in Positions(res.data) :
       /\ StudentAt(res.data, p).paidAmount > StudentAt(res.data, p).totalFee
       /\ StudentAt(res.data, q).paidAmount < StudentAt(res.data, q).totalFee
  /\ \E i \in DOMAIN res.data : res.data[i].students = <<>>

\* C10: the reminders count of a fetched list is the number of its Students
\* with paidAmount < totalFee, and it is 0 exactly when totalPendingFees is 0.
C10_Reminders ==
  Listed =>
    /\ reminders(res.data) =
         Cardinality({p \in Positions(res.data) :
                        StudentAt(res.data, p).paidAmount
                          < StudentAt(res.data, p).totalFee})
    /\ (reminders(res.data) = 0 <=> totalPendingFees(res.data) = 0)

\* C10 witness: a fetched list of two Students of which exactly one is
\* counted, the other having paid more than the fee.
C10_Witness ==
  /\ Listed /\ totalStudents(res.data) = 2 /\ reminders(res.data) = 1
  /\ \E p \in Positions(res.data) :
       StudentAt(res.data, p).paidAmount > StudentAt(res.data, p).totalFee

\* C13: Create Course without a title (absent or empty) is answered 400 with
\* a validation error and stores nothing; with a title, when the save
\* resolves, it stores exactly one new Course whose id no Course has or had,
\* with the title given and language "English" when none is given, answers
\* 201 with that Course and an empty students sequence, and leaves every
\* stored Course and Student as it was.
C13_CreateCourse ==
  [][\A body \in CourseBodies, ok \in BOOLEAN :
       PostCourse(body, ok) =>
         IF ~Has(body, "title") \/ body.title = ""
         THEN /\ res'.status = 400 /\ res'.message = "ValidationError"
              /\ courses' = courses /\ students' = students
         ELSE ok =>
              /\ Cardinality(DOMAIN courses' \ DOMAIN courses) = 1
              /\ \A id \in DOMAIN courses :
                   id \in DOMAIN courses' /\ courses'[id] = courses[id]
              /\ students' = students
              /\ LET new == CHOOSE id \in DOMAIN courses' : id \notin DOMAIN courses
                 IN  /\ new \notin deleted
                     /\ courses'[new].title = body.title
                     /\ courses'[new].language =
                          (IF Has(body, "language") THEN body.language
                           ELSE "English")
                     /\ res'.status = 201
                     /\ res'.doc = {Merge(courses'[new], [students |-> <<>>])}]_vars

\* C13 witness: a Course created from a body without language was answered
\* 201 with language "English" while another Course and a Student are stored.
C13_Witness ==
  /\ res.kind = "PostCourse" /\ res.status = 201
  /\ \E d \in res.doc : d.language = "English" /\ d.students = <<>>
  /\ Cardinality(DOMAIN courses) = 2
  /\ students # << >>

\* The responses a step delivers to the component, the requests it issues.
DeliveredBy(before, after) == before.responses \ after.responses

IssuedBy(before, after) == after.requests \ before.requests

\* C11: for every student of the list the component holds, isPaid is true
\* when paidAmount >= totalFee and false otherwise; the student is shown as
\* Paid exactly when it is neither counted as a reminder nor offered the
\* WhatsApp reminder button, so the reminders count is the number of
\* students not shown as Paid.
C11_PaidOrReminded ==
  /\ \A p \in Positions(ui.courses) :
       LET s == StudentAt(ui.courses, p)
       IN  /\ HasAmounts(s) => (isPaid(s) <=> s.paidAmount >= s.totalFee)
           /\ isPaid(s) <=> (~NeedsReminder(s) /\ ~ReminderOffered(s))
  /\ reminders(ui.courses) =
       Cardinality({p \in Positions(ui.courses) :
                      ~isPaid(StudentAt(ui.courses, p))})

\* C12: the phone handleSaveStudent sends is the phone of the form with
\* "+91" prepended unless it starts with "+", and normalizing it again
\* changes nothing; when the form of a student edited is submitted with the
\* phone input untouched, the phone sent is the phone the student has; the
\* Student is stored with the phone sent, which is the one
\* sendWhatsAppReminder opens.
C12_PhoneNormalized ==
  [][/\ \A typed \in TypedStudents :
          handleSaveStudent(typed) =>
            LET form == Merge(StudentFormDefaults(ui.editingStudent), typed)
            IN  \A m \in IssuedBy(net, net') :
                  /\ m.body.phone = IF Head(form.phone) = "+" THEN form.phone
                                    ELSE <<"+", "9", "1">> \o form.phone
                  /\ NormalizePhone(m.body.phone) = m.body.phone
                  /\ ("phone" \notin DOMAIN typed /\ ui.editingStudent # {}) =>
                       m.body.phone = The(ui.editingStudent).phone
     /\ \A m \in net.requests \ net'.requests :
          (m.from = "handleSaveStudent" /\ Resolved(res') /\ res'.doc # {}) =>
            /\ students'[The(res'.doc)._id].phone = m.body.phone
            /\ WhatsAppPhone(The(res'.doc)) = {m.body.phone}]_vars

\* C14: every stored Student's totalFee and paidAmount, when it has them,
\* are not negative.
C14_AmountsNonNegative ==
  \A s \in DOMAIN students :
    /\ Has(students[s], "totalFee") => students[s].totalFee >= 0
    /\ Has(students[s], "paidAmount") => students[s].paidAmount >= 0

\* C15: the step that delivers the resolved response of a write request
\* (save course, delete course, save student, delete student, update
\* reminder) issues exactly one list request, and a list request is issued
\* by no other step: none before the write is confirmed.
C15_ReloadAfterWrite ==
  [][LET done == {r \in DeliveredBy(net, net') : r.route # "GetCourses"}
         reloads == {m \in IssuedBy(net, net') : m.route = "GetCourses"}
     IN  /\ \A r \in done :
              Resolved(r) =>
                /\ Cardinality(reloads) = 1
                /\ \A m \in reloads : m.n > r.n /\ m.from = "fetchCourses"
         /\ reloads # {} => \E r \in done : Resolved(r)]_vars

\* C15 witness: the reload that follows a confirmed reminder update has just
\* been issued; no request of the component was rejected.
C15_Witness ==
  /\ ~net.rejected /\ net.responses = {}
  /\ \E m \in net.requests : m.route = "GetCourses" /\ m.n = net.issued
  /\ \E s \in DOMAIN students : students[s].reminderMessage \in Messages

\* The state C16 names: the list, the selections, the modals, the editing
\* selections.
Selections(u) ==
  <<u.courses, u.selectedCourse, u.selectedStudent, u.showCourseModal,
    u.showStudentModal, u.showStudentDetailModal, u.editingCourse,
    u.editingStudent>>

\* C16: the step that delivers the rejected response of a write request
\* reports the error and changes none of the list, the selections, the
\* modals and the editing selections; and what the handler had set before
\* its await is not left in place (unless it set what was there already).
C16_FailedWriteLeavesState ==
  [][\A r \in DeliveredBy(net, net') :
       (r.route # "GetCourses" /\ ~Resolved(r)) =>
         /\ ui'.alert # ""
         /\ Selections(ui') = Selections(ui)
         /\ \A f \in DOMAIN r.changed :
              ui'[f] = r.changed[f].is => r.changed[f].is = r.changed[f].was]_vars

\* C17: once the initial load has finished and no request is in flight, a
\* course is selected whenever the list is not empty; and after a list
\* request resolved, the selected course is one of the list delivered, and
\* one is selected when that list is not empty.
C17_CourseSelected ==
  [][/\ (~ui'.loading /\ NoneInFlight' /\ ui'.courses # <<>>) =>
          ui'.selectedCourse # {}
     /\ \A r \in DeliveredBy(net, net') :
          (r.route = "GetCourses" /\ Resolved(r)) =>
            /\ ui'.selectedCourse \subseteq Range(r.data)
            /\ r.data # <<>> => ui'.selectedCourse # {}]_vars

\* C18: when every request has completed and none was rejected, a Student
\* whose reminder message was edited in a row is stored as it was before
\* the row, with the last message entered.
C18_LastReminderStored ==
  (NoneInFlight /\ ~net.rejected) =>
    \A id \in DOMAIN net.row :
      id \in DOMAIN students =>
        students[id] = Merge(net.row[id].before,
                             [reminderMessage |-> net.row[id].last])

\* The stored Courses with their Students, as the list request returns them
\* from a database at rest.
StoredList ==
  LET found == CourseFind(courses)
  IN  [i \in DOMAIN found |->
         View(found[i], StudentFind(students, found[i]._id))]

\* C19: when every write and list request of the component has completed
\* and none was rejected, the list the component holds is the stored one.
C19_ListNotStale ==
  (NoneInFlight /\ ~net.rejected /\ ~ui.loading) => ui.courses = StoredList

====
